---- MODULE Spec2Model ----
(***************************************************************************)
(* A model of the gnet reactor engine (darinkes/gnet): the client          *)
(* orchestrator (client.go), the reactor dispatch callbacks                *)
(* (reactor_linux.go), the shutdown controller built on sync.Cond and      *)
(* sync.Once, and the entry points Serve, Connect, parseAddr (gnet.go)     *)
(* and initOptions (options.go).                                           *)
(*                                                                         *)
(* Spec, FairSpec: one run of the engine, either a client (engine =        *)
(*   "client": the goroutine running connect(), a goroutine calling        *)
(*   Client.Close, a goroutine calling Client.Write and the reactor) or a  *)
(*   server (engine = "server": the accept reactor and two workers).       *)
(* SpecSignal: signalShutdown under concurrent callers.                    *)
(* SpecJobs: the engine with injected jobs and no readiness events.        *)
(* SpecSetup: Serve and Connect from their call to the start of the        *)
(*   engine.                                                               *)
(* SpecParse, SpecOptions: parseAddr and initOptions on bounded inputs.    *)
(***************************************************************************)
EXTENDS Integers, Sequences, FiniteSets, TLC

VARIABLES
    engine,        \* "client" | "server" | "harness"
    pc,            \* position of every thread
    clConn,        \* cl.conn # nil
    poller,        \* cl.mainLoop.poller: "none" | "open" | "closed"
    jobs,          \* each loop's Notifier queue of injected jobs
    triggerCount,  \* number of poller.Trigger calls made by stop()
    closeCount,    \* number of poller.Close calls
    table,         \* lp.connections: the descriptors in the loop's table
    out,           \* length of each connection's outbound store
    interest,      \* poll interest registered per descriptor
    wg,            \* cl.wg counter
    waiters,       \* cond's notify list (FIFO)
    onceDone,      \* once.done
    onceM,         \* holder of once.m, or "free"
    signalCount,   \* number of cond.Signal executions
    estCount,      \* number of OnConnectionEstablished invocations
    estAction,     \* the Action it returned
    setup,         \* the steps of activateReactors that have run
    disp,          \* the last dispatch made by the Polling callback
    sentBy,        \* threads that sent on a socket or appended to a store
    earlyWrite,    \* a payload was sent or queued before the callback fired
    owner,         \* the loop whose table holds each descriptor, or "none"
    cursor,        \* the server's round-robin cursor over its workers
    tickers,       \* the loops that have started a loopTicker thread
    optTicker,     \* opts.Ticker
    lastJob,       \* the last injected job a Polling call drained
    su             \* the caller of Serve / Connect / initOptions / parseAddr

vars == <<engine, pc, clConn, poller, jobs, triggerCount, closeCount, table,
          out, interest, wg, waiters, onceDone, onceM, signalCount, estCount,
          estAction, setup, disp, sentBy, earlyWrite, owner, cursor, tickers,
          optTicker, lastJob, su>>

\* The variables the orchestrator's and the shutdown controller's steps
\* leave alone.
others == <<owner, cursor, tickers, optTicker, lastJob, su>>

\* Bounds of the model.
MaxOut == 2     \* most bytes held by an outbound store
MaxMsg == 1     \* longest payload written in one call
MaxJobs == 1    \* most jobs waiting in one Notifier's queue

Fds == {"fd3", "fd4"}
\* The descriptor of the client's one connection (cl.connection.fd).
ClientFd == "fd3"

\* Event masks: the set of conditions netpoll reports for a descriptor.
EventMasks == {{"in"}, {"out"}, {"in", "out"}}

Actions == {"None", "Close", "Shutdown"}

StopCallers == {"connect", "closer"}
SigCallers == {"s1", "s2"}
\* The reactor threads: the client's loop or the server's worker 0
\* ("reactor"), the server's worker 1 and the server's accept reactor.
Workers == {"reactor", "worker1"}
Reactors == Workers \cup {"accept"}
Threads == StopCallers \cup Reactors \cup SigCallers

NoDispatch == [fd |-> "none", ev |-> {}, wasEmpty |-> TRUE, inTable |-> FALSE,
               handler |-> "none", herr |-> "nil", err |-> "nil",
               engine |-> "none", loop |-> "none"]

\* The steps of activateReactors: AddRead, the table entry, the reactor thread.
SetupSteps == {"AddRead", "connections", "go"}

-----------------------------------------------------------------------------
(* The dispatch callbacks handed to Polling.  Each yields the handler the   *)
(* callback selects for a readiness event, "nil" when it returns nil        *)
(* without calling one.                                                     *)

\* A re-ordered callback: inbound first.
ClientCallbackInFirst(fd, ev) ==
    IF fd \in table
    THEN IF "in" \in ev THEN "loopClientIn"
         ELSE IF "out" \in ev /\ out[fd] # 0 THEN "loopClientOut" ELSE "nil"
    ELSE "nil"

\* A callback that does not look the descriptor up in the table.
ClientCallbackNoLookup(fd, ev) ==
    IF out[fd] # 0
    THEN IF "out" \in ev THEN "loopClientOut" ELSE "nil"
    ELSE IF "in" \in ev THEN "loopClientIn" ELSE "nil"

ClientCallback(fd, ev) ==
    IF fd \in table
    THEN IF out[fd] # 0
         THEN IF "out" \in ev THEN "loopClientOut" ELSE "nil"
         ELSE IF "in" \in ev THEN "loopClientIn" ELSE "nil"
    ELSE "nil"

\* A worker callback that flushes on every outbound-writable event.
SubReactorCallbackOutAlways(fd, ev) ==
    IF fd \in table
    THEN IF "out" \in ev THEN "loopOut"
         ELSE IF "in" \in ev /\ out[fd] = 0 THEN "loopIn" ELSE "nil"
    ELSE "nil"

SubReactorCallback(fd, ev) ==
    IF fd \in table
    THEN IF out[fd] # 0
         THEN IF "out" \in ev THEN "loopOut" ELSE "nil"
         ELSE IF "in" \in ev THEN "loopIn" ELSE "nil"
    ELSE "nil"

Callback(fd, ev) ==
    IF engine = "client" THEN ClientCallback(fd, ev) ELSE SubReactorCallback(fd, ev)

InHandlers == {"loopIn", "loopClientIn"}
OutHandlers == {"loopOut", "loopClientOut"}

-----------------------------------------------------------------------------
(* conn.write: an immediate non-blocking send attempt of len bytes, of      *)
(* which the socket accepts acc; the rest is appended to the outbound       *)
(* store, and poll interest is escalated when the store is non-empty.       *)

WriteFits(fd, len, acc) == out[fd] + (len - acc) <= MaxOut

connWriteOut(fd, len, acc) == [out EXCEPT ![fd] = @ + (len - acc)]

connWriteInterest(fd, len, acc) ==
    IF out[fd] + (len - acc) > 0 THEN [interest EXCEPT ![fd] = "rw"] ELSE interest

\* Close of a connection: deregister, release the buffers, drop the entry.
loopCloseConnOut(fd) == [out EXCEPT ![fd] = 0]
loopCloseConnInterest(fd) == [interest EXCEPT ![fd] = "none"]

\* The error a handler returns for the Action of a user callback.
handleAction(a) == IF a = "Shutdown" THEN "errShutdown" ELSE "nil"

\* The deferred call a reactor makes when Polling has returned: the
\* client's signalShutdown or the server's.
DeferredSignal == IF engine = "server" THEN "svrSignal" ELSE "once_check"

\* A reactor without the deferred signalShutdown.
AfterCallbackNoDefer(err) == IF err = "nil" THEN "polling" ELSE "wgdone"

\* Where the reactor thread goes when its callback returns err: a non-nil
\* error ends Polling, and the deferred signalShutdown runs.
AfterCallback(err) == IF err = "nil" THEN "polling" ELSE DeferredSignal

(* loopIn / loopClientIn: React returns len bytes and Action a; the bytes   *)
(* are written, then the Action is interpreted; closed is the Action of     *)
(* OnClosed when the connection is closed.                                  *)
loopIn(fd, len, acc, a, closed) ==
    /\ WriteFits(fd, len, acc)
    /\ IF a = "Close"
       THEN /\ out' = loopCloseConnOut(fd)
            /\ interest' = loopCloseConnInterest(fd)
            /\ table' = table \ {fd}
       ELSE /\ out' = connWriteOut(fd, len, acc)
            /\ interest' = connWriteInterest(fd, len, acc)
            /\ table' = table
    /\ sentBy' = IF len > 0 THEN sentBy \cup {"reactor"} ELSE sentBy

(* loopOut / loopClientOut: flush n bytes of the store; a store drained to  *)
(* empty downgrades interest to inbound-only; a failed write closes the     *)
(* connection.                                                              *)
loopOut(fd, n, failed, closed) ==
    /\ IF failed
       THEN /\ out' = loopCloseConnOut(fd)
            /\ interest' = loopCloseConnInterest(fd)
            /\ table' = table \ {fd}
       ELSE /\ out' = [out EXCEPT ![fd] = @ - n]
            /\ interest' = IF out[fd] - n = 0
                           THEN [interest EXCEPT ![fd] = "r"] ELSE interest
            /\ table' = table
    /\ sentBy' = sentBy \cup {"reactor"}

\* The error loopIn / loopClientIn returns: that of the Action it
\* interpreted, OnClosed's when the connection was closed.
loopInErr(a, closed) == IF a = "Close" THEN handleAction(closed) ELSE handleAction(a)

\* The error loopOut / loopClientOut returns.
loopOutErr(failed, closed) == IF failed THEN handleAction(closed) ELSE "nil"

-----------------------------------------------------------------------------
(* The reactor thread: Polling invokes the callback once per ready          *)
(* descriptor.                                                              *)

\* A callback that drops the error of the handler it called.
CallbackReturnSwallowed(h, herr) == "nil"

\* What the callback returns to Polling: the error of the handler it
\* called, nil when it called none.
CallbackReturn(h, herr) == IF h = "nil" THEN "nil" ELSE herr

\* The callback has selected handler h, which returned herr.
Dispatched(lp, fd, ev, h, herr) ==
    /\ pc' = [pc EXCEPT ![lp] = AfterCallback(CallbackReturn(h, herr))]
    /\ disp' = [fd |-> fd, ev |-> ev, wasEmpty |-> out[fd] = 0,
                inTable |-> fd \in table, handler |-> h, herr |-> herr,
                err |-> CallbackReturn(h, herr), engine |-> engine, loop |-> lp]

\* A readiness event of loop lp's poller: for a descriptor of its table, or
\* for one that is in no table (never added, or removed by a Close).
Event(lp, fd, ev) ==
    /\ pc[lp] = "polling"
    /\ owner[fd] \in {lp, "none"}
    /\ LET h == Callback(fd, ev) IN
       \/ /\ h \in InHandlers
          /\ \E len \in 0..MaxMsg, a \in Actions, closed \in {"None", "Shutdown"} :
               \E acc \in 0..len : /\ loopIn(fd, len, acc, a, closed)
                                   /\ Dispatched(lp, fd, ev, h, loopInErr(a, closed))
       \/ /\ h \in OutHandlers
          /\ \E n \in 0..out[fd], failed \in BOOLEAN, closed \in {"None", "Shutdown"} :
               /\ loopOut(fd, n, failed, closed)
               /\ Dispatched(lp, fd, ev, h, loopOutErr(failed, closed))
       \/ /\ h = "nil"
          /\ UNCHANGED <<out, interest, table, sentBy>>
          /\ Dispatched(lp, fd, ev, h, "nil")
    /\ owner' = [f \in Fds |-> IF f \in table' THEN owner[f] ELSE "none"]
    /\ UNCHANGED <<engine, clConn, poller, jobs, triggerCount, closeCount, wg,
                   waiters, onceDone, onceM, signalCount, estCount, estAction,
                   setup, earlyWrite, cursor, tickers, optTicker, lastJob, su>>

-----------------------------------------------------------------------------
(* signalShutdown: cl.once.Do(func() { L.Lock(); cond.Signal(); L.Unlock() *)
(* }).  sync.Once: a fast-path read of done, then under once.m a second     *)
(* read, f, the store of done, and the unlock.                              *)

\* A signalShutdown that is not guarded by the Once.
ShouldSignalUnguarded == TRUE

\* Whether Do runs f, read under once.m.
ShouldSignal == ~onceDone

\* Where a thread continues after signalShutdown returns.
AfterSignal(t) == IF t \in Reactors THEN "wgdone" ELSE "sigdone"

\* cond.Signal wakes the longest-waiting goroutine, if any: it leaves
\* cond.Wait and goes on with stop().
SignalPc(t) ==
    IF waiters # <<>>
    THEN [pc EXCEPT ![t] = "once_unlock", ![Head(waiters)] = "trigger"]
    ELSE [pc EXCEPT ![t] = "once_unlock"]

OnceCheck(t) ==
    /\ pc[t] = "once_check"
    /\ pc' = [pc EXCEPT ![t] = IF onceDone THEN AfterSignal(t) ELSE "once_lock"]
    /\ UNCHANGED <<others, engine, clConn, poller, jobs, triggerCount, closeCount, table,
                   out, interest, wg, waiters, onceDone, onceM, signalCount,
                   estCount, estAction, setup, disp, sentBy, earlyWrite>>

OnceLock(t) ==
    /\ pc[t] = "once_lock"
    /\ onceM = "free"
    /\ onceM' = t
    /\ pc' = [pc EXCEPT ![t] = "once_in"]
    /\ UNCHANGED <<others, engine, clConn, poller, jobs, triggerCount, closeCount, table,
                   out, interest, wg, waiters, onceDone, signalCount,
                   estCount, estAction, setup, disp, sentBy, earlyWrite>>

OnceIn(t) ==
    /\ pc[t] = "once_in"
    /\ IF ShouldSignal
       THEN /\ signalCount' = signalCount + 1
            /\ pc' = SignalPc(t)
            /\ waiters' = IF waiters # <<>> THEN Tail(waiters) ELSE waiters
       ELSE /\ pc' = [pc EXCEPT ![t] = "once_unlock"]
            /\ UNCHANGED <<signalCount, waiters>>
    /\ UNCHANGED <<others, engine, clConn, poller, jobs, triggerCount, closeCount, table,
                   out, interest, wg, onceDone, onceM,
                   estCount, estAction, setup, disp, sentBy, earlyWrite>>

OnceUnlock(t) ==
    /\ pc[t] = "once_unlock"
    /\ onceDone' = TRUE
    /\ onceM' = "free"
    /\ pc' = [pc EXCEPT ![t] = AfterSignal(t)]
    /\ UNCHANGED <<others, engine, clConn, poller, jobs, triggerCount, closeCount, table,
                   out, interest, wg, waiters, signalCount,
                   estCount, estAction, setup, disp, sentBy, earlyWrite>>

signalShutdown(t) == OnceCheck(t) \/ OnceLock(t) \/ OnceIn(t) \/ OnceUnlock(t)

\* The server's signalShutdown: a guarded one-shot signal.
svrSignalShutdown(r) ==
    /\ pc[r] = "svrSignal"
    /\ signalCount' = IF onceDone THEN signalCount ELSE signalCount + 1
    /\ onceDone' = TRUE
    /\ pc' = [pc EXCEPT ![r] = AfterSignal(r)]
    /\ UNCHANGED <<others, engine, clConn, poller, jobs, triggerCount, closeCount,
                   table, out, interest, wg, waiters, onceM, estCount,
                   estAction, setup, disp, sentBy, earlyWrite>>

\* The reactor goroutine of activateReactors: wg.Done after
\* activateMainReactor has returned.
ReactorWgDone(r) ==
    /\ pc[r] = "wgdone"
    /\ wg' = wg - 1
    /\ pc' = [pc EXCEPT ![r] = "done"]
    /\ UNCHANGED <<others, engine, clConn, poller, jobs, triggerCount, closeCount, table,
                   out, interest, waiters, onceDone, onceM, signalCount,
                   estCount, estAction, setup, disp, sentBy, earlyWrite>>

-----------------------------------------------------------------------------
(* The client orchestrator: connect(), activateReactors(), stop().          *)

\* A connect that goes on to the callback whatever start() returned.
AfterStartIgnoringError(ok) == "callback"

\* connect: a start-up error is returned at once; otherwise stop() is
\* deferred and the established callback is next.
AfterStart(ok) == IF ok THEN "callback" ELSE "failed"

\* activateReactors; ok is whether netpoll.OpenPoller succeeded.
activateReactors(ok) ==
    IF ok
    THEN /\ poller' = "open"
         /\ interest' = [interest EXCEPT ![ClientFd] = "r"]
         /\ clConn' = TRUE
         /\ table' = table \cup {ClientFd}
         /\ wg' = wg + 1
         /\ setup' = SetupSteps
         /\ owner' = [owner EXCEPT ![ClientFd] = "reactor"]
         /\ pc' = [pc EXCEPT !["reactor"] = "activate", !["connect"] = AfterStart(ok)]
    ELSE /\ pc' = [pc EXCEPT !["connect"] = AfterStart(ok)]
         /\ UNCHANGED <<poller, interest, clConn, table, wg, setup, owner>>

ConnectStart ==
    /\ pc["connect"] = "start"
    /\ \E ok \in BOOLEAN : activateReactors(ok)
    /\ UNCHANGED <<engine, jobs, triggerCount, closeCount, out, waiters, onceDone,
                   onceM, signalCount, estCount, estAction, disp, sentBy,
                   earlyWrite, cursor, tickers, optTicker, lastJob, su>>

\* connect, after the callback has returned Action a: both cases of the
\* switch return nil, and the deferred stop() runs.
AfterEstablished(a) == "waitForShutdown"

ConnectEstablished ==
    /\ pc["connect"] = "callback"
    /\ \E a \in Actions :
         /\ estAction' = a
         /\ pc' = [pc EXCEPT !["connect"] = AfterEstablished(a)]
    /\ estCount' = estCount + 1
    /\ UNCHANGED <<others, engine, clConn, poller, jobs, triggerCount, closeCount, table,
                   out, interest, wg, waiters, onceDone, onceM, signalCount,
                   setup, disp, sentBy, earlyWrite>>

\* Client.Close: stop() on the caller's goroutine.
ClientClose ==
    /\ pc["closer"] = "idle"
    /\ pc' = [pc EXCEPT !["closer"] = "waitForShutdown"]
    /\ UNCHANGED <<others, engine, clConn, poller, jobs, triggerCount, closeCount, table,
                   out, interest, wg, waiters, onceDone, onceM, signalCount,
                   estCount, estAction, setup, disp, sentBy, earlyWrite>>

\* A waitForShutdown that does not wait.
waitForShutdownNoWait(t) ==
    /\ pc' = [pc EXCEPT ![t] = "trigger"]
    /\ waiters' = waiters

\* waitForShutdown: L.Lock(); cond.Wait() joins the notify list and blocks
\* until a Signal picks this goroutine.
waitForShutdown(t) ==
    /\ pc' = [pc EXCEPT ![t] = "waiting"]
    /\ waiters' = Append(waiters, t)

StopWait(t) ==
    /\ pc[t] = "waitForShutdown"
    /\ waitForShutdown(t)
    /\ UNCHANGED <<others, engine, clConn, poller, jobs, triggerCount, closeCount, table,
                   out, interest, wg, onceDone, onceM, signalCount,
                   estCount, estAction, setup, disp, sentBy, earlyWrite>>

\* stop: the terminating job is injected when there is a loop.
StopTrigger(t) ==
    /\ pc[t] = "trigger"
    /\ IF poller # "none"
       THEN /\ jobs' = [jobs EXCEPT !["reactor"] = Append(@, "errShutdown")]
            /\ triggerCount' = triggerCount + 1
       ELSE UNCHANGED <<jobs, triggerCount>>
    /\ pc' = [pc EXCEPT ![t] = "wgwait"]
    /\ UNCHANGED <<others, engine, clConn, poller, closeCount, table,
                   out, interest, wg, waiters, onceDone, onceM, signalCount,
                   estCount, estAction, setup, disp, sentBy, earlyWrite>>

\* A stop() that does not wait for the reactor thread.
wgWaitReturnsAtOnce == TRUE

\* cl.wg.Wait() returns when the counter is zero.
wgWaitReturns == wg = 0

StopWgWait(t) ==
    /\ pc[t] = "wgwait"
    /\ wgWaitReturns
    /\ pc' = [pc EXCEPT ![t] = "close"]
    /\ UNCHANGED <<others, engine, clConn, poller, jobs, triggerCount, closeCount, table,
                   out, interest, wg, waiters, onceDone, onceM, signalCount,
                   estCount, estAction, setup, disp, sentBy, earlyWrite>>

StopClose(t) ==
    /\ pc[t] = "close"
    /\ IF poller # "none"
       THEN /\ poller' = "closed"
            /\ closeCount' = closeCount + 1
       ELSE UNCHANGED <<poller, closeCount>>
    /\ pc' = [pc EXCEPT ![t] = "returned"]
    /\ UNCHANGED <<others, engine, clConn, jobs, triggerCount, table,
                   out, interest, wg, waiters, onceDone, onceM, signalCount,
                   estCount, estAction, setup, disp, sentBy, earlyWrite>>

stop(t) == StopWait(t) \/ StopTrigger(t) \/ StopWgWait(t) \/ StopClose(t)

(* Client.Write: cl.conn.write(b) on the caller's goroutine.  A call while  *)
(* cl.conn is nil dereferences nil and ends the program; a write on a       *)
(* closed connection fails: neither is followed here.                       *)
ClientWrite ==
    /\ engine = "client"
    /\ clConn
    /\ ClientFd \in table
    /\ \E len \in 1..MaxMsg : \E acc \in 0..len :
         /\ WriteFits(ClientFd, len, acc)
         /\ out' = connWriteOut(ClientFd, len, acc)
         /\ interest' = connWriteInterest(ClientFd, len, acc)
    /\ sentBy' = sentBy \cup {"writer"}
    /\ earlyWrite' = (earlyWrite \/ estCount = 0)
    /\ UNCHANGED <<others, engine, pc, clConn, poller, jobs, triggerCount, closeCount,
                   table, wg, waiters, onceDone, onceM, signalCount,
                   estCount, estAction, setup, disp>>

-----------------------------------------------------------------------------
(* The start of a reactor thread: before Polling, the client's loop and a   *)
(* worker start the loopTicker thread when the loop's idx is 0 and the      *)
(* Ticker option is set; the accept reactor starts none.                    *)

\* The idx of the client's one loop.
ClientIdx == 0

\* The idx of a server loop: the workers are numbered from 0.
WorkerIdx(lp) == IF lp = "reactor" THEN 0 ELSE IF lp = "worker1" THEN 1 ELSE -1

ClientStartsTicker == ClientIdx = 0 /\ optTicker

\* A worker that starts the ticker whatever its idx.
SubStartsTickerAnyIdx(lp) == optTicker

SubStartsTicker(lp) == WorkerIdx(lp) = 0 /\ optTicker

MainStartsTicker == FALSE

StartsTicker(lp) ==
    IF engine = "client" THEN ClientStartsTicker
    ELSE IF lp = "accept" THEN MainStartsTicker
    ELSE SubStartsTicker(lp)

Activate(lp) ==
    /\ pc[lp] = "activate"
    /\ tickers' = IF StartsTicker(lp) THEN tickers \cup {lp} ELSE tickers
    /\ pc' = [pc EXCEPT ![lp] = "polling"]
    /\ UNCHANGED <<engine, clConn, poller, jobs, triggerCount, closeCount, table,
                   out, interest, wg, waiters, onceDone, onceM, signalCount,
                   estCount, estAction, setup, disp, sentBy, earlyWrite,
                   owner, cursor, optTicker, lastJob, su>>

-----------------------------------------------------------------------------
(* Injected jobs.  Conn.AsyncWrite and Conn.Wake, callable from any thread, *)
(* and the loopTicker thread inject a job into the owning loop's Notifier;  *)
(* stop() injects the terminating job.  Polling drains the queue in order   *)
(* and invokes the dispatch callback once per drained job, the job being    *)
(* the callback's third argument.                                           *)

NoJob == [loop |-> "none", job |-> "none", ran |-> FALSE, err |-> "nil"]

\* Trigger: the job joins the loop's queue.
Trigger(lp, job) == [jobs EXCEPT ![lp] = Append(@, job)]

\* Conn.AsyncWrite / Conn.Wake on a connection of some loop's table.
Inject(fd, kind) ==
    /\ fd \in table
    /\ Len(jobs[owner[fd]]) < MaxJobs
    /\ jobs' = Trigger(owner[fd], kind)
    /\ UNCHANGED <<others, engine, pc, clConn, poller, triggerCount, closeCount,
                   table, out, interest, wg, waiters, onceDone, onceM,
                   signalCount, estCount, estAction, setup, disp, sentBy,
                   earlyWrite>>

\* The loopTicker thread of loop lp injects the job that calls Tick.
loopTicker(lp) ==
    /\ lp \in tickers
    /\ Len(jobs[lp]) < MaxJobs
    /\ jobs' = Trigger(lp, "tick")
    /\ UNCHANGED <<others, engine, pc, clConn, poller, triggerCount, closeCount,
                   table, out, interest, wg, waiters, onceDone, onceM,
                   signalCount, estCount, estAction, setup, disp, sentBy,
                   earlyWrite>>

\* The error a job returns when it is run: the terminating job returns
\* errShutdown.
JobErr(job) == IF job = "errShutdown" THEN "errShutdown" ELSE "nil"

\* Whether the client's and the workers' dispatch callbacks call the job
\* they are handed: their bodies never refer to it.
CallbackRunsJob == FALSE

\* What the callback returns for a drained job: no readiness condition is
\* reported with it, so no handler is selected either.
CallbackJobReturn(fd, job) ==
    IF CallbackRunsJob THEN JobErr(job)
    ELSE CallbackReturn(Callback(fd, {}), "nil")

\* Polling on loop lp drains the oldest job and hands it to the callback.
DrainJob(lp) ==
    /\ pc[lp] = "polling"
    /\ jobs[lp] # <<>>
    /\ jobs' = [jobs EXCEPT ![lp] = Tail(@)]
    /\ \E fd \in Fds :
         /\ owner[fd] \in {lp, "none"}
         /\ lastJob' = [loop |-> lp, job |-> Head(jobs[lp]),
                        ran |-> CallbackRunsJob,
                        err |-> CallbackJobReturn(fd, Head(jobs[lp]))]
         /\ pc' = [pc EXCEPT ![lp] = AfterCallback(CallbackJobReturn(fd, Head(jobs[lp])))]
    /\ UNCHANGED <<engine, clConn, poller, triggerCount, closeCount, table,
                   out, interest, wg, waiters, onceDone, onceM, signalCount,
                   estCount, estAction, setup, disp, sentBy, earlyWrite,
                   owner, cursor, tickers, optTicker, su>>

-----------------------------------------------------------------------------
(* The server's accept reactor: its callback returns whatever               *)
(* acceptNewConnection returns.  acceptNewConnection accepts a connection,  *)
(* selects a worker by round-robin, puts the connection in that worker's    *)
(* table registered for inbound interest, writes OnOpened's bytes and       *)
(* interprets OnOpened's Action; a failed accept returns its error.         *)

NextWorker(w) == IF w = "reactor" THEN "worker1" ELSE "reactor"

\* The accept callback: return svr.acceptNewConnection(fd).
MainCallbackReturn(err) == err

Accepted(fd, herr) ==
    /\ pc' = [pc EXCEPT !["accept"] = AfterCallback(MainCallbackReturn(herr))]
    /\ disp' = [fd |-> fd, ev |-> {"in"}, wasEmpty |-> TRUE, inTable |-> FALSE,
                handler |-> "acceptNewConnection", herr |-> herr,
                err |-> MainCallbackReturn(herr), engine |-> engine,
                loop |-> "accept"]

acceptNewConnection(fd) ==
    /\ engine = "server"
    /\ pc["accept"] = "polling"
    /\ fd \notin table
    /\ \/ /\ Accepted(fd, "errAccept")
          /\ UNCHANGED <<table, out, interest, sentBy, owner, cursor>>
       \/ \E len \in 0..MaxMsg, a \in Actions, closed \in {"None", "Shutdown"} :
            \E acc \in 0..len :
              /\ IF a = "Close"
                 THEN UNCHANGED <<table, out, interest, owner>>
                 ELSE /\ table' = table \cup {fd}
                      /\ out' = [out EXCEPT ![fd] = len - acc]
                      /\ interest' = IF len - acc > 0
                                     THEN [interest EXCEPT ![fd] = "rw"]
                                     ELSE [interest EXCEPT ![fd] = "r"]
                      /\ owner' = [owner EXCEPT ![fd] = cursor]
              /\ cursor' = NextWorker(cursor)
              /\ sentBy' = IF len > 0 THEN sentBy \cup {"reactor"} ELSE sentBy
              /\ Accepted(fd, loopInErr(a, closed))
    /\ UNCHANGED <<engine, clConn, poller, jobs, triggerCount, closeCount,
                   wg, waiters, onceDone, onceM, signalCount,
                   estCount, estAction, setup, earlyWrite, tickers, optTicker,
                   lastJob, su>>

-----------------------------------------------------------------------------
NoSetup == [pc |-> "na"]

NoThread == [t \in Threads |-> "na"]

InitCommon ==
    /\ clConn = FALSE
    /\ jobs = [lp \in Reactors |-> <<>>]
    /\ triggerCount = 0
    /\ closeCount = 0
    /\ owner = [fd \in Fds |-> "none"]
    /\ cursor = "reactor"
    /\ tickers = {}
    /\ optTicker \in BOOLEAN
    /\ lastJob = NoJob
    /\ su = NoSetup
    /\ table = {}
    /\ out = [fd \in Fds |-> 0]
    /\ interest = [fd \in Fds |-> "none"]
    /\ waiters = <<>>
    /\ onceDone = FALSE
    /\ onceM = "free"
    /\ signalCount = 0
    /\ estCount = 0
    /\ estAction = "unset"
    /\ setup = {}
    /\ disp = NoDispatch
    /\ sentBy = {}
    /\ earlyWrite = FALSE

\* connect() has built the Client; start() is next.
InitClient ==
    /\ engine = "client"
    /\ pc = [NoThread EXCEPT !["connect"] = "start", !["closer"] = "idle",
                             !["reactor"] = "notstarted"]
    /\ poller = "none"
    /\ wg = 0
    /\ InitCommon

\* serve() has started the accept reactor and two workers.
InitServer ==
    /\ engine = "server"
    /\ pc = [t \in Threads |-> IF t \in Reactors THEN "activate" ELSE "na"]
    /\ poller = "open"
    /\ wg = Cardinality(Reactors)
    /\ InitCommon

Init == InitClient \/ InitServer

Next ==
    \/ ConnectStart
    \/ ConnectEstablished
    \/ ClientClose
    \/ \E t \in StopCallers : stop(t)
    \/ ClientWrite
    \/ \E fd \in Fds : acceptNewConnection(fd)
    \/ \E lp \in Reactors : Activate(lp)
    \/ \E lp \in Workers, fd \in Fds, ev \in EventMasks : Event(lp, fd, ev)
    \/ \E r \in Reactors : signalShutdown(r)
    \/ \E r \in Reactors : svrSignalShutdown(r)
    \/ \E r \in Reactors : ReactorWgDone(r)

Spec == Init /\ [][Next]_vars

\* The goroutines are scheduled fairly; readiness events, Close and Write
\* calls are the environment's and need not happen.
FairSpec ==
    /\ Spec
    /\ WF_vars(ConnectStart)
    /\ WF_vars(ConnectEstablished)
    /\ \A t \in StopCallers : WF_vars(stop(t))
    /\ \A r \in Reactors : WF_vars(Activate(r))
    /\ \A r \in Reactors : WF_vars(signalShutdown(r))
    /\ \A r \in Reactors : WF_vars(svrSignalShutdown(r))
    /\ \A r \in Reactors : WF_vars(ReactorWgDone(r))

-----------------------------------------------------------------------------
(* Strings are sequences of one-character strings, so that parseAddr works  *)
(* on them as strings.Contains and strings.Split do.                        *)

Sep == <<":", "/", "/">>
Tcp == <<"t", "c", "p">>
Udp == <<"u", "d", "p">>
Unix == <<"u", "n", "i", "x">>

\* The schemes Serve's documentation lists as valid.
UdpSchemes == {Udp, Udp \o <<"4">>, Udp \o <<"6">>}
StreamSchemes == {Tcp, Tcp \o <<"4">>, Tcp \o <<"6">>, Unix}
Schemes == UdpSchemes \cup StreamSchemes

\* Whether sep occurs in s at position i.
MatchAt(s, sep, i) ==
    /\ i + Len(sep) - 1 <= Len(s)
    /\ \A k \in 1..Len(sep) : s[i + k - 1] = sep[k]

\* strings.Index, 1-based; 0 when sep does not occur.
Index(s, sep) ==
    IF \E i \in 1..Len(s) : MatchAt(s, sep, i)
    THEN CHOOSE i \in 1..Len(s) :
           /\ MatchAt(s, sep, i)
           /\ \A j \in 1..(i - 1) : ~MatchAt(s, sep, j)
    ELSE 0

\* strings.Contains
Contains(s, sep) == Index(s, sep) # 0

\* strings.Split for a non-empty sep: the pieces between all the
\* non-overlapping occurrences of sep, taken from the left.
RECURSIVE Split(_, _)
Split(s, sep) ==
    IF ~Contains(s, sep) THEN <<s>>
    ELSE <<SubSeq(s, 1, Index(s, sep) - 1)>> \o
         Split(SubSeq(s, Index(s, sep) + Len(sep), Len(s)), sep)

parseAddr(addr) ==
    IF Contains(addr, Sep)
    THEN [network |-> Split(addr, Sep)[1], address |-> Split(addr, Sep)[2]]
    ELSE [network |-> Tcp, address |-> addr]

-----------------------------------------------------------------------------
(* Serve and Connect up to the start of the engine: every library call may  *)
(* fail, and its error is returned at once.                                 *)

Host == <<"h">>

\* The addresses handed to Serve and Connect: each valid scheme, and a bare
\* address.
ExampleAddrs == {sch \o Sep \o Host : sch \in Schemes} \cup {Host}

\* Where Serve / Connect goes after a library call: on, or out with the error.
AfterSetupStepIgnoringError(ok, next) == next

AfterSetupStep(ok, next) == IF ok THEN next ELSE "returned"

\* The error the function has returned: that of the failed call.
SetupReturned(ok, e) == IF ok THEN "none" ELSE e

\* A library call made at su.pc: fn is the function called, e the error it
\* produces when it fails, kind the endpoint it creates when it succeeds.
SetupStep(fn, e, kind, next) ==
    \E ok \in BOOLEAN :
       su' = [su EXCEPT !.pc = AfterSetupStep(ok, next),
                        !.calls = Append(@, fn),
                        !.lastErr = IF ok THEN "nil" ELSE e,
                        !.kind = IF ok /\ kind # "same" THEN kind ELSE @,
                        !.err = SetupReturned(ok, e)]

\* What the steps of Serve and Connect leave alone.
engineVars == <<engine, pc, clConn, poller, jobs, triggerCount, closeCount,
                table, out, interest, wg, waiters, onceDone, onceM,
                signalCount, estCount, estAction, setup, disp, sentBy,
                earlyWrite, owner, cursor, tickers, optTicker, lastJob>>

\* con.network, con.addr = parseAddr(addr)
ConnectParse ==
    /\ su.pc = "Connect"
    /\ su' = [su EXCEPT !.pc = "resolve",
                        !.network = parseAddr(su.addr).network,
                        !.address = parseAddr(su.addr).address]
    /\ UNCHANGED engineVars

ConnectResolve ==
    /\ su.pc = "resolve"
    /\ IF su.network = Udp
       THEN SetupStep("ResolveUDPAddr", "errResolve", "same", "dial")
       ELSE SetupStep("ResolveTCPAddr", "errResolve", "same", "dial")
    /\ UNCHANGED engineVars

ConnectDial ==
    /\ su.pc = "dial"
    /\ IF su.network = Udp
       THEN SetupStep("DialUDP", "errDial", "udp", "file")
       ELSE SetupStep("DialTCP", "errDial", "tcp", "file")
    /\ UNCHANGED engineVars

\* con.f, err = c.File()
ConnectFile ==
    /\ su.pc = "file"
    /\ SetupStep("File", "errFile", "same", "nonblock")
    /\ UNCHANGED engineVars

\* unix.SetNonblock, then connect(): the Client is built.
ConnectNonblock ==
    /\ su.pc = "nonblock"
    /\ SetupStep("SetNonblock", "errNonblock", "same", "connect")
    /\ pc' = IF su'.pc = "connect"
             THEN [pc EXCEPT !["connect"] = "start", !["reactor"] = "notstarted"]
             ELSE pc
    /\ UNCHANGED <<engine, clConn, poller, jobs, triggerCount, closeCount,
                   table, out, interest, wg, waiters, onceDone, onceM,
                   signalCount, estCount, estAction, setup, disp, sentBy,
                   earlyWrite, owner, cursor, tickers, optTicker, lastJob>>

\* Connect returns what connect() returns: the error of start(), or nil
\* when the deferred stop() has run.
ConnectReturn ==
    /\ su.pc = "connect"
    /\ pc["connect"] \in {"failed", "returned"}
    /\ su' = [su EXCEPT !.pc = "returned",
                        !.lastErr = IF pc["connect"] = "failed"
                                    THEN "errOpenPoller" ELSE "nil",
                        !.err = IF pc["connect"] = "failed"
                                THEN "errOpenPoller" ELSE "nil"]
    /\ UNCHANGED engineVars

\* ln.network, ln.addr = parseAddr(addr)
ServeParse ==
    /\ su.pc = "Serve"
    /\ su' = [su EXCEPT !.pc = "listen",
                        !.network = parseAddr(su.addr).network,
                        !.address = parseAddr(su.addr).address]
    /\ UNCHANGED engineVars

\* The listener: a packet listener for "udp", a stream listener otherwise;
\* through the reuse-port variant when opts.ReusePort is set.
ServeListen ==
    /\ su.pc = "listen"
    /\ IF su.network = Udp
       THEN SetupStep(IF su.reusePort THEN "ReusePortListenPacket" ELSE "ListenPacket",
                      "errListen", "packet", "system")
       ELSE SetupStep(IF su.reusePort THEN "ReusePortListen" ELSE "Listen",
                      "errListen", "stream", "system")
    /\ UNCHANGED engineVars

\* ln.system(): the listener's descriptor, set non-blocking.
ServeSystem ==
    /\ su.pc = "system"
    /\ SetupStep("system", "errSystem", "same", "serve")
    /\ UNCHANGED engineVars

\* serve(): the pollers are opened and the reactor threads started, or the
\* error of the poller is returned.
ServeStart ==
    /\ su.pc = "serve"
    /\ SetupStep("OpenPoller", "errOpenPoller", "same", "serving")
    /\ pc' = IF su'.pc = "serving"
             THEN [t \in Threads |-> IF t \in Reactors THEN "activate" ELSE "na"]
             ELSE pc
    /\ wg' = IF su'.pc = "serving" THEN Cardinality(Reactors) ELSE wg
    /\ poller' = IF su'.pc = "serving" THEN "open" ELSE poller
    /\ UNCHANGED <<engine, clConn, jobs, triggerCount, closeCount,
                   table, out, interest, waiters, onceDone, onceM,
                   signalCount, estCount, estAction, setup, disp, sentBy,
                   earlyWrite, owner, cursor, tickers, optTicker, lastJob>>

\* No Client or server has been built yet.
EngineNotStarted ==
    /\ pc = NoThread
    /\ clConn = FALSE
    /\ poller = "none"
    /\ jobs = [lp \in Reactors |-> <<>>]
    /\ triggerCount = 0
    /\ closeCount = 0
    /\ table = {}
    /\ out = [fd \in Fds |-> 0]
    /\ interest = [fd \in Fds |-> "none"]
    /\ wg = 0
    /\ waiters = <<>>
    /\ onceDone = FALSE
    /\ onceM = "free"
    /\ signalCount = 0
    /\ estCount = 0
    /\ estAction = "unset"
    /\ setup = {}
    /\ disp = NoDispatch
    /\ sentBy = {}
    /\ earlyWrite = FALSE
    /\ owner = [fd \in Fds |-> "none"]
    /\ cursor = "reactor"
    /\ tickers = {}
    /\ lastJob = NoJob

\* Serve or Connect has just been called with an address and options.
InitSetup ==
    /\ \E entry \in {"Serve", "Connect"}, addr \in ExampleAddrs, rp \in BOOLEAN :
         /\ su = [pc |-> entry, entry |-> entry, addr |-> addr, reusePort |-> rp,
                  network |-> <<>>, address |-> <<>>, calls |-> <<>>,
                  lastErr |-> "nil", kind |-> "none", err |-> "none"]
         /\ engine = IF entry = "Serve" THEN "server" ELSE "client"
    /\ EngineNotStarted
    /\ optTicker \in BOOLEAN

NextSetup ==
    \/ ConnectParse
    \/ ConnectResolve
    \/ ConnectDial
    \/ ConnectFile
    \/ ConnectNonblock
    \/ ConnectStart
    \/ ConnectEstablished
    \/ ConnectReturn
    \/ StopWait("connect")
    \/ ServeParse
    \/ ServeListen
    \/ ServeSystem
    \/ ServeStart
    \/ \E lp \in Reactors : Activate(lp)

SpecSetup == InitSetup /\ [][NextSetup]_vars

-----------------------------------------------------------------------------
(* parseAddr on its own, for every short string over a small alphabet.      *)

MaxAddrLen == 6   \* longest address string

Alphabet == {":", "/", "a"}

AddrStrings == UNION {[1..n -> Alphabet] : n \in 0..MaxAddrLen}

ParseAddr ==
    /\ su.pc = "parseAddr"
    /\ su' = [su EXCEPT !.pc = "parsed",
                        !.network = parseAddr(su.addr).network,
                        !.address = parseAddr(su.addr).address]
    /\ UNCHANGED engineVars

InitParse ==
    /\ \E addr \in AddrStrings :
         su = [pc |-> "parseAddr", addr |-> addr, network |-> <<>>, address |-> <<>>]
    /\ engine = "parseAddr"
    /\ optTicker = FALSE
    /\ EngineNotStarted

SpecParse == InitParse /\ [][ParseAddr]_vars

-----------------------------------------------------------------------------
(* initOptions: the Option functions are applied, in order, to a new        *)
(* Options value.                                                           *)

MaxOpts == 2      \* most Option arguments of one call

KeepAlives == {0, 1}
Codecs == {"nil", "codec"}

OptionsValues ==
    [Multicore : BOOLEAN, ReusePort : BOOLEAN, Ticker : BOOLEAN,
     TCPKeepAlive : KeepAlives, Codec : Codecs]

\* new(Options)
ZeroOptions ==
    [Multicore |-> FALSE, ReusePort |-> FALSE, Ticker |-> FALSE,
     TCPKeepAlive |-> 0, Codec |-> "nil"]

\* The field a single-field setter assigns.
FieldOf ==
    [WithMulticore |-> "Multicore", WithReusePort |-> "ReusePort",
     WithTicker |-> "Ticker", WithTCPKeepAlive |-> "TCPKeepAlive",
     WithCodec |-> "Codec"]

\* The Option values: a setter and its argument.
Setters ==
    [fn : {"WithMulticore", "WithReusePort", "WithTicker"}, arg : BOOLEAN]
    \cup [fn : {"WithTCPKeepAlive"}, arg : KeepAlives]
    \cup [fn : {"WithCodec"}, arg : Codecs]
    \cup [fn : {"WithOptions"}, arg : OptionsValues]

\* A WithOptions that keeps the fields the new value leaves at zero.
WithOptionsMerging(options, opts) ==
    [f \in DOMAIN opts |-> IF options[f] = ZeroOptions[f] THEN opts[f] ELSE options[f]]

\* WithOptions: *opts = options
WithOptions(options, opts) == options

WithMulticore(multicore, opts) == [opts EXCEPT !.Multicore = multicore]
WithReusePort(reusePort, opts) == [opts EXCEPT !.ReusePort = reusePort]
WithTCPKeepAlive(tcpKeepAlive, opts) == [opts EXCEPT !.TCPKeepAlive = tcpKeepAlive]
WithTicker(ticker, opts) == [opts EXCEPT !.Ticker = ticker]
WithCodec(codec, opts) == [opts EXCEPT !.Codec = codec]

\* option(opts)
ApplyOption(o, opts) ==
    CASE o.fn = "WithOptions" -> WithOptions(o.arg, opts)
      [] o.fn = "WithMulticore" -> WithMulticore(o.arg, opts)
      [] o.fn = "WithReusePort" -> WithReusePort(o.arg, opts)
      [] o.fn = "WithTCPKeepAlive" -> WithTCPKeepAlive(o.arg, opts)
      [] o.fn = "WithTicker" -> WithTicker(o.arg, opts)
      [] o.fn = "WithCodec" -> WithCodec(o.arg, opts)

\* One turn of initOptions' loop.
initOptions ==
    /\ su.pc = "initOptions"
    /\ su.i <= Len(su.options)
    /\ su' = [su EXCEPT !.opts = ApplyOption(su.options[su.i], su.opts),
                        !.i = su.i + 1]
    /\ UNCHANGED engineVars

\* return opts
initOptionsReturn ==
    /\ su.pc = "initOptions"
    /\ su.i > Len(su.options)
    /\ su' = [su EXCEPT !.pc = "optionsReturned"]
    /\ UNCHANGED engineVars

InitOptions ==
    /\ \E options \in UNION {[1..n -> Setters] : n \in 0..MaxOpts} :
         su = [pc |-> "initOptions", options |-> options, i |-> 1,
               opts |-> ZeroOptions]
    /\ engine = "initOptions"
    /\ optTicker = FALSE
    /\ EngineNotStarted

NextOptions == initOptions \/ initOptionsReturn

SpecOptions == InitOptions /\ [][NextOptions]_vars

-----------------------------------------------------------------------------
(* The engine with job traffic and no readiness events: connections are     *)
(* accepted or established, AsyncWrite, Wake and the ticker inject jobs,    *)
(* and Polling drains them.                                                 *)

NextJobs ==
    \/ ConnectStart
    \/ ConnectEstablished
    \/ \E lp \in Reactors : Activate(lp)
    \/ \E fd \in Fds : acceptNewConnection(fd)
    \/ \E fd \in Fds, kind \in {"asyncWrite", "wake"} : Inject(fd, kind)
    \/ \E lp \in Workers : loopTicker(lp)
    \/ \E lp \in Workers : DrainJob(lp)
    \/ \E r \in Reactors : svrSignalShutdown(r)
    \/ \E r \in Reactors : ReactorWgDone(r)

SpecJobs == Init /\ [][NextJobs]_vars

-----------------------------------------------------------------------------
(* signalShutdown under concurrent callers: the reactor's Polling has       *)
(* returned, connect is about to run its deferred stop(), and two more      *)
(* goroutines call signalShutdown.                                          *)

SigCall(t) ==
    /\ pc[t] = "sidle"
    /\ pc' = [pc EXCEPT ![t] = "once_check"]
    /\ UNCHANGED <<others, engine, clConn, poller, jobs, triggerCount, closeCount, table,
                   out, interest, wg, waiters, onceDone, onceM, signalCount,
                   estCount, estAction, setup, disp, sentBy, earlyWrite>>

InitSignal ==
    /\ engine = "harness"
    /\ pc = [t \in Threads |->
               IF t = "connect" THEN "waitForShutdown"
               ELSE IF t = "closer" THEN "idle"
               ELSE IF t = "reactor" THEN "once_check"
               ELSE IF t \in SigCallers THEN "sidle"
               ELSE "na"]
    /\ clConn = TRUE
    /\ poller = "open"
    /\ jobs = [lp \in Reactors |-> <<>>]
    /\ triggerCount = 0
    /\ closeCount = 0
    /\ owner = [fd \in Fds |-> IF fd = ClientFd THEN "reactor" ELSE "none"]
    /\ cursor = "reactor"
    /\ tickers = {}
    /\ optTicker = FALSE
    /\ lastJob = NoJob
    /\ su = NoSetup
    /\ table = {ClientFd}
    /\ out = [fd \in Fds |-> 0]
    /\ interest = [fd \in Fds |-> IF fd = ClientFd THEN "r" ELSE "none"]
    /\ wg = 1
    /\ waiters = <<>>
    /\ onceDone = FALSE
    /\ onceM = "free"
    /\ signalCount = 0
    /\ estCount = 1
    /\ estAction = "None"
    /\ setup = SetupSteps
    /\ disp = NoDispatch
    /\ sentBy = {}
    /\ earlyWrite = FALSE

NextSignal ==
    \/ \E t \in SigCallers : SigCall(t)
    \/ \E t \in SigCallers \cup {"reactor"} : signalShutdown(t)
    \/ ReactorWgDone("reactor")
    \/ ClientClose
    \/ \E t \in StopCallers : stop(t)

SpecSignal == InitSignal /\ [][NextSignal]_vars

-----------------------------------------------------------------------------
(* The claims.                                                              *)

\* C1: a readiness event dispatched for a connection of the loop's table
\* whose outbound store is non-empty never invokes the data-arrived path
\* (loopIn / loopClientIn), whatever the event mask holds.
C1_NoInboundWhileOutboundPending ==
    (disp.inTable /\ ~disp.wasEmpty) => disp.handler \notin InHandlers

C1_Witness ==
    /\ disp.engine = "client"
    /\ disp.inTable
    /\ ~disp.wasEmpty
    /\ disp.ev = {"in", "out"}
    /\ disp.handler = "loopClientOut"

\* C2: a readiness event dispatched for a connection of the loop's table
\* whose outbound store is empty never invokes the flush path (loopOut /
\* loopClientOut); an outbound-only event on an empty store selects no
\* handler and the callback returns nil.
C2_NoFlushOnEmptyStore ==
    (disp.inTable /\ disp.wasEmpty) =>
        /\ disp.handler \notin OutHandlers
        /\ disp.ev = {"out"} => (disp.handler = "nil" /\ disp.err = "nil")

C2_Witness ==
    /\ disp.engine = "server"
    /\ disp.inTable
    /\ disp.wasEmpty
    /\ disp.ev = {"out"}
    /\ disp.handler = "nil"
    /\ pc["reactor"] = "polling"

SignalReturned(t) == pc[t] \in {"sigdone", "wgdone", "done"}

\* C3: however many goroutines call signalShutdown, one after another or
\* at once, cond.Signal is executed at most once, and exactly once as soon
\* as one call has returned.
C3_SignalExactlyOnce ==
    /\ signalCount <= 1
    /\ (\E t \in Threads : SignalReturned(t)) => signalCount = 1

C3_Witness ==
    /\ \A t \in SigCallers \cup {"reactor"} : SignalReturned(t)
    /\ signalCount = 1

\* C4: in a client, once signalShutdown has been called, the terminating
\* job is eventually injected, the reactor has left Polling and Connect
\* eventually returns (stated for the runs in which nobody calls
\* Client.Close, so that connect's own stop() is the only waiter).
C4_ShutdownLiveness ==
    (engine = "client" /\ signalCount > 0 /\ pc["closer"] = "idle") ~>
        \/ /\ triggerCount > 0
           /\ pc["reactor"] \notin {"notstarted", "activate", "polling"}
           /\ pc["connect"] = "returned"
        \/ pc["closer"] # "idle"

\* C5: in every execution of a Client the terminating job is injected at
\* most once and the poller is closed at most once.
C5_OneTeardown == triggerCount <= 1 /\ closeCount <= 1

C5_Witness ==
    /\ closeCount = 1
    /\ triggerCount = 1
    /\ pc["connect"] = "returned"
    /\ pc["closer"] = "waiting"

\* C6: the poller is closed only after the reactor thread has finished:
\* activateMainReactor has returned and wg.Done has run.
C6_CloseAfterReactor == poller = "closed" => pc["reactor"] = "done"

C6_Witness == poller = "closed" /\ pc["reactor"] = "done" /\ wg = 0

\* C7: OnConnectionEstablished is invoked at most once, exactly once when
\* start-up succeeded and connect has gone past it, only after AddRead, the
\* table entry and the start of the reactor thread, and never when
\* start-up failed.
C7_EstablishedOnce ==
    /\ estCount <= 1
    /\ estCount = 1 => (setup = SetupSteps /\ clConn /\ pc["reactor"] # "notstarted")
    /\ pc["connect"] = "failed" => estCount = 0
    /\ pc["connect"] \in {"waitForShutdown", "waiting", "trigger", "wgwait",
                          "close", "returned"} => estCount = 1

C7_Witness == engine = "client" /\ pc["connect"] = "returned" /\ estCount = 1

\* C8: when OnConnectionEstablished returns Shutdown the client is torn
\* down at once: connect never waits for a shutdown request of another
\* path while the reactor is still polling and no signal has been raised.
C8_ShutdownTearsDown ==
    ~(/\ estAction = "Shutdown"
      /\ pc["connect"] = "waiting"
      /\ pc["reactor"] = "polling"
      /\ signalCount = 0)

\* C9: no goroutine other than the reactor sends on the socket or appends
\* to a connection's outbound store.
C9_SingleWriter == sentBy \subseteq {"reactor"}

StopLabels == {"waitForShutdown", "waiting", "trigger", "wgwait", "close", "returned"}

\* C11: when Serve or Connect returns the error of a failed set-up call
\* (resolving, dialing, listening, obtaining the descriptor, setting
\* non-blocking mode, opening the poller), that error is the one returned,
\* no reactor thread has been started, no user callback has been invoked
\* and stop() has not been entered.
C11_SetupErrorIsFatal ==
    /\ su.lastErr # "nil" => (su.pc = "returned" /\ su.err = su.lastErr)
    /\ su.err \notin {"none", "nil"} =>
         /\ \A r \in Reactors : pc[r] \in {"na", "notstarted"}
         /\ tickers = {}
         /\ estCount = 0
         /\ disp = NoDispatch
         /\ pc["connect"] \notin StopLabels

C11_Witness ==
    /\ su.entry = "Connect"
    /\ su.pc = "returned"
    /\ su.err = "errOpenPoller"
    /\ pc["connect"] = "failed"
    /\ pc["reactor"] = "notstarted"

\* C12: Serve and Connect treat every scheme of the udp family (udp, udp4,
\* udp6) as a datagram endpoint and every other scheme as a stream
\* endpoint: the first library call (the listen of Serve, the resolve of
\* Connect), the dial of Connect and the endpoint obtained are the
\* datagram ones exactly when the parsed scheme is udp, udp4 or udp6.
C12_UdpFamilyIsDatagram ==
    /\ Len(su.calls) >= 1 =>
         (su.calls[1] \in {"ListenPacket", "ReusePortListenPacket", "ResolveUDPAddr"}
            <=> su.network \in UdpSchemes)
    /\ (su.entry = "Connect" /\ Len(su.calls) >= 2) =>
         (su.calls[2] = "DialUDP" <=> su.network \in UdpSchemes)
    /\ su.kind # "none" => (su.kind \in {"packet", "udp"} <=> su.network \in UdpSchemes)

\* C13: for an address without "://" parseAddr returns ("tcp", the address
\* unchanged); for one with "://" it returns the scheme before the first
\* "://" and everything after it, so that scheme, "://" and the rest put
\* together are the input again.
C13_ParseAddrRoundTrip ==
    su.pc = "parsed" =>
        IF Contains(su.addr, Sep)
        THEN /\ su.network \o Sep \o su.address = su.addr
             /\ ~Contains(su.network, Sep)
        ELSE su.network = Tcp /\ su.address = su.addr

\* The Options value the claim describes: each field holds the argument of
\* the last Option that assigns it (a setter of the field, or WithOptions,
\* which assigns every field), and the zero value when there is none.
Assigns(o, f) == o.fn = "WithOptions" \/ FieldOf[o.fn] = f

LastAssigned(options, f) ==
    IF \E k \in 1..Len(options) : Assigns(options[k], f)
    THEN LET k == CHOOSE k \in 1..Len(options) :
                    /\ Assigns(options[k], f)
                    /\ \A j \in (k + 1)..Len(options) : ~Assigns(options[j], f)
         IN  IF options[k].fn = "WithOptions" THEN options[k].arg[f] ELSE options[k].arg
    ELSE ZeroOptions[f]

\* C20: initOptions returns the Options obtained by applying the Option
\* functions from left to right to the zero value: no Option gives the zero
\* value, a later setter of a field wins, a single-field setter leaves the
\* other fields alone, and WithOptions replaces the whole value.
C20_OptionsLeftToRight ==
    su.pc = "optionsReturned" =>
        /\ su.options = <<>> => su.opts = ZeroOptions
        /\ \A f \in DOMAIN ZeroOptions : su.opts[f] = LastAssigned(su.options, f)

C20_Witness ==
    /\ su.pc = "optionsReturned"
    /\ Len(su.options) = 2
    /\ su.options[1].fn = "WithTicker"
    /\ su.options[1].arg
    /\ su.options[2].fn = "WithOptions"
    /\ su.options[2].arg = [ZeroOptions EXCEPT !.Multicore = TRUE]
    /\ su.opts = [ZeroOptions EXCEPT !.Multicore = TRUE]

\* The idx of a loop of the running engine.
LoopIdx(lp) == IF engine = "client" THEN ClientIdx ELSE WorkerIdx(lp)

Started(lp) == pc[lp] \notin {"na", "notstarted", "activate"}

\* C14: a reactor has started the ticker thread exactly when it is a
\* client loop or a worker, its idx is 0 and Ticker is enabled; so an
\* engine has at most one ticker thread, a worker with another idx and the
\* accept reactor have none, and with Ticker disabled no job calling Tick
\* is ever injected.
C14_TickerOnLoopZero ==
    /\ \A lp \in Reactors : Started(lp) =>
         (lp \in tickers <=> (lp \in Workers /\ LoopIdx(lp) = 0 /\ optTicker))
    /\ \A lp \in Reactors : ~Started(lp) => lp \notin tickers
    /\ Cardinality(tickers) <= 1
    /\ ~optTicker => /\ lastJob.job # "tick"
                     /\ \A lp \in Reactors : \A k \in 1..Len(jobs[lp]) :
                           jobs[lp][k] # "tick"

C14_Witness ==
    /\ engine = "server"
    /\ optTicker
    /\ tickers = {"reactor"}
    /\ pc["worker1"] = "polling"
    /\ pc["accept"] = "polling"
    /\ jobs["reactor"] = <<"tick">>

\* C16: every injected job that a Polling call has drained has been run,
\* the dispatch callback that received it as its third argument not
\* having dropped it, and the error it returned is the one the callback
\* handed back to Polling.
C16_JobsRunOnce ==
    lastJob.job # "none" => (lastJob.ran /\ lastJob.err = JobErr(lastJob.job))

Handlers == InHandlers \cup OutHandlers \cup {"acceptNewConnection"}

\* C15: the dispatch callback returns exactly the error of the handler it
\* selected (nil when it selected none); a reactor leaves Polling only in
\* a step in which its callback returned a non-nil error, a non-nil error
\* always ends its Polling, and it stays in Polling while the callback
\* returns nil.
C15_OnlyErrorEndsPolling ==
    [][ /\ disp'.err = IF disp'.handler \in Handlers THEN disp'.herr ELSE "nil"
        /\ \A lp \in Reactors :
             (pc[lp] = "polling" /\ pc'[lp] # "polling") =>
                 (disp'.loop = lp /\ disp'.err # "nil")
        /\ \A lp \in Reactors :
             (pc[lp] = "polling" /\ disp' # disp /\ disp'.loop = lp) =>
                 (pc'[lp] = "polling" <=> disp'.err = "nil") ]_vars

C15_Witness ==
    /\ disp.engine = "client"
    /\ disp.handler = "loopClientIn"
    /\ disp.herr = "errShutdown"
    /\ disp.err = "errShutdown"
    /\ pc["reactor"] = "once_check"

\* C17: a reactor thread (client loop, accept reactor, worker) whose
\* Polling has returned does not finish before the one-shot shutdown
\* signal has been raised.
C17_SignalBeforeReactorEnds ==
    \A r \in Reactors : pc[r] \in {"wgdone", "done"} => (onceDone /\ signalCount = 1)

C17_Witness ==
    /\ engine = "server"
    /\ pc["accept"] = "done"
    /\ disp.err = "errAccept"
    /\ signalCount = 1
    /\ pc["reactor"] = "polling"
    /\ pc["worker1"] = "polling"

InWait(t) == pc[t] \in {"waitForShutdown", "waiting"}

\* C18: no wake-up is lost: once signalShutdown has been called, every
\* caller of waitForShutdown, whether it started waiting before or after
\* the signal and however many callers there are, eventually returns
\* from it.
C18_NoLostWakeup ==
    \A t \in StopCallers : (InWait(t) /\ signalCount > 0) ~> ~InWait(t)

\* C19: a readiness event a worker loop or the client loop gets for a
\* descriptor that is not in its table selects no handler and returns nil,
\* changes no connection's state and leaves the loop running.
C19_UnknownDescriptorIgnored ==
    [][ (disp' # disp /\ disp'.loop \in Workers /\ ~disp'.inTable) =>
            /\ disp'.handler = "nil"
            /\ disp'.err = "nil"
            /\ table' = table /\ out' = out /\ interest' = interest
            /\ owner' = owner /\ sentBy' = sentBy
            /\ pc' = pc ]_vars

C19_Witness ==
    /\ disp.engine = "client"
    /\ disp.fd = ClientFd
    /\ ~disp.inTable
    /\ disp.ev = {"in", "out"}
    /\ disp.handler = "nil"
    /\ pc["reactor"] = "polling"

====
